---- MODULE Spec2Model ----
(***************************************************************************)
(* karaoke-rs, src/config.rs: resolution of the runtime configuration from *)
(* three layers (built-in defaults, the YAML config file, the caller's     *)
(* overrides).  The model follows load_config statement by statement:      *)
(* choice of the config file, create_config_if_not_exists, default_or_file *)
(* (merge of the serialized defaults with the file, then deserialization), *)
(* and the six override assignments.                                       *)
(*                                                                         *)
(* Option<T> is modelled as a set: {} is None and {v} is Some(v).          *)
(***************************************************************************)
EXTENDS Integers, Sequences, FiniteSets, TLC

VARIABLES
    fs,          \* the file system: path -> file
    pc,          \* position of the load_config call in progress
    args,        \* the arguments of the call in progress
    config_file, \* local `config_file` of load_config (Option)
    config,      \* local `config` of load_config (Option)
    ret,         \* what the call returned
    log,         \* the steps the call in progress has run, in order
    fileAtCall,  \* the file at the target path when the call started
    merged,      \* what default_or_file returned to the call in progress
    created,     \* per path: which kind of call wrote the file, if any
    writes       \* per path: how many times load_config wrote the file

vars ==
    <<fs, pc, args, config_file, config, ret, log, fileAtCall, merged,
      created, writes>>

----------------------------------------------------------------------------
(* Bounds of the model *)

\* an initial config file sets at most this many keys
MaxFileKeys == 2

----------------------------------------------------------------------------
(* Option *)

None == {}

Some(v) == {v}

Unwrap(o) == CHOOSE v \in o : TRUE

----------------------------------------------------------------------------
(* Paths *)

\* lazy_static CONF_FILE: config_dir()/karaoke-rs/config.yaml
CONF_FILE == "~/.config/karaoke-rs/config.yaml"

\* lazy_static DATA_DIR: data_dir()/karaoke-rs
DATA_DIR == "~/.local/share/karaoke-rs"

\* lazy_static SONG_DIR: DATA_DIR/songs
SONG_DIR == "~/.local/share/karaoke-rs/songs"

\* the explicit config path the callers pass
ExplicitPath == "tests/test_data/config.yaml"

Paths == {CONF_FILE, ExplicitPath}

----------------------------------------------------------------------------
(* Config and its defaults *)

DefaultPort == 8080

DefaultPortWs == 9000

\* f32 scale, in tenths
DefaultScale == 15

DefaultSongFormat == "[*] - [Artist] - [Title]"

\* impl Default for PlayerConfig
PlayerConfigDefault ==
    [fullscreen |-> FALSE, scale |-> DefaultScale, disable_background |-> FALSE]

\* a default whose paths are left empty
ConfigDefaultEmptyPaths ==
    [song_path |-> "",
     data_path |-> "",
     no_collection_update |-> FALSE,
     use_web_player |-> FALSE,
     port |-> DefaultPort,
     port_ws |-> DefaultPortWs,
     song_format |-> DefaultSongFormat,
     player |-> PlayerConfigDefault]

\* impl Default for Config
ConfigDefault ==
    [song_path |-> SONG_DIR,
     data_path |-> DATA_DIR,
     no_collection_update |-> FALSE,
     use_web_player |-> FALSE,
     port |-> DefaultPort,
     port_ws |-> DefaultPortWs,
     song_format |-> DefaultSongFormat,
     player |-> PlayerConfigDefault]

----------------------------------------------------------------------------
(* Values of the intermediate key/value map (cfg::Config) and of the file *)

VStr(x) == [kind |-> "str", s |-> x, i |-> 0, b |-> FALSE]

VInt(x) == [kind |-> "int", s |-> "", i |-> x, b |-> FALSE]

VBool(x) == [kind |-> "bool", s |-> "", i |-> 0, b |-> x]

\* a float, in tenths
VFloat(x) == [kind |-> "float", s |-> "", i |-> x, b |-> FALSE]

\* the keys of the map; the nested player table is addressed by dotted keys
MapKeys ==
    {"song_path", "data_path", "no_collection_update", "use_web_player",
     "port", "port_ws", "song_format",
     "player.fullscreen", "player.scale", "player.disable_background"}

\* the kind each field of Config deserializes from
KindOf(k) ==
    CASE k \in {"song_path", "data_path", "song_format"} -> "str"
      [] k \in {"no_collection_update", "use_web_player",
                "player.fullscreen", "player.disable_background"} -> "bool"
      [] k \in {"port", "port_ws"} -> "int"
      [] k = "player.scale" -> "float"

\* cfg::Config::new(): no key set
EmptyMap == [k \in MapKeys |-> None]

\* cfg::Config::try_from(&Config): the struct serialized to a map, every key set
TryFrom(c) ==
    [k \in MapKeys |->
        CASE k = "song_path" -> Some(VStr(c.song_path))
          [] k = "data_path" -> Some(VStr(c.data_path))
          [] k = "no_collection_update" -> Some(VBool(c.no_collection_update))
          [] k = "use_web_player" -> Some(VBool(c.use_web_player))
          [] k = "port" -> Some(VInt(c.port))
          [] k = "port_ws" -> Some(VInt(c.port_ws))
          [] k = "song_format" -> Some(VStr(c.song_format))
          [] k = "player.fullscreen" -> Some(VBool(c.player.fullscreen))
          [] k = "player.scale" -> Some(VFloat(c.player.scale))
          [] k = "player.disable_background" ->
                 Some(VBool(c.player.disable_background))]

\* a merge in which the keys already set win over the source's
MergeKeepsFirst(map, source) ==
    [k \in MapKeys |-> IF map[k] # None THEN map[k] ELSE source[k]]

\* _config.merge(source): the keys the source sets replace those of the map
Merge(map, source) ==
    [k \in MapKeys |-> IF source[k] # None THEN source[k] ELSE map[k]]

\* a key deserializes when it is set and holds a value of the field's kind
\* (the integers of the model's files all fit u16)
Decodes(map, k) ==
    /\ map[k] # None
    /\ Unwrap(map[k]).kind = KindOf(k)

\* _config.try_into::<Config>(): atomic over the whole record
TryInto(map) ==
    IF \A k \in MapKeys : Decodes(map, k)
    THEN [ok |-> TRUE,
          val |-> Some(
            [song_path |-> Unwrap(map["song_path"]).s,
             data_path |-> Unwrap(map["data_path"]).s,
             no_collection_update |-> Unwrap(map["no_collection_update"]).b,
             use_web_player |-> Unwrap(map["use_web_player"]).b,
             port |-> Unwrap(map["port"]).i,
             port_ws |-> Unwrap(map["port_ws"]).i,
             song_format |-> Unwrap(map["song_format"]).s,
             player |->
               [fullscreen |-> Unwrap(map["player.fullscreen"]).b,
                scale |-> Unwrap(map["player.scale"]).i,
                disable_background |->
                    Unwrap(map["player.disable_background"]).b]])]
    ELSE [ok |-> FALSE, val |-> None]

----------------------------------------------------------------------------
(* Files *)

\* no file at the path
Absent == [exists |-> FALSE, syntax_ok |-> TRUE, doc |-> EmptyMap]

\* a YAML file holding the document d
YamlFile(d) == [exists |-> TRUE, syntax_ok |-> TRUE, doc |-> d]

\* a file that is not YAML
BrokenFile == [exists |-> TRUE, syntax_ok |-> FALSE, doc |-> EmptyMap]

\* the values a user's config file may give each key
FileValues(k) ==
    CASE k = "song_path" -> {None, Some(VStr("")), Some(VStr("/media/songs"))}
      [] k = "data_path" -> {None, Some(VStr("")), Some(VStr("/media/data"))}
      [] k = "no_collection_update" -> {None, Some(VBool(TRUE))}
      [] k = "use_web_player" -> {None, Some(VBool(TRUE))}
      [] k = "port" ->
            {None, Some(VInt(9090)), Some(VInt(9999)),
             Some(VStr("not-a-number"))}
      [] k = "port_ws" -> {None, Some(VInt(9191))}
      [] k = "song_format" -> {None, Some(VStr("[Artist] - [Title]"))}
      [] k = "player.fullscreen" -> {None, Some(VBool(TRUE))}
      [] OTHER -> {None}

NumKeys(d) == Cardinality({k \in MapKeys : d[k] # None})

\* the documents that set at most n keys
RECURSIVE DocsUpTo(_)
DocsUpTo(n) ==
    IF n = 0 THEN {EmptyMap}
    ELSE DocsUpTo(n - 1) \cup
         {[d EXCEPT ![k] = v] :
            <<d, k, v>> \in
               {t \in DocsUpTo(n - 1) \X MapKeys \X
                        UNION {FileValues(k) : k \in MapKeys} :
                   /\ t[1][t[2]] = None
                   /\ t[3] # None
                   /\ t[3] \in FileValues(t[2])}}

Docs == DocsUpTo(MaxFileKeys)

InitialFiles == {Absent, BrokenFile} \cup {YamlFile(d) : d \in Docs}

----------------------------------------------------------------------------
(* The arguments of load_config *)

NoOverrides ==
    [song_path |-> None, data_path |-> None, refresh_collection |-> None,
     use_web_player |-> None, port |-> None, port_ws |-> None]

\* the overrides of tests::test_create_custom_config
TestPort == 8000

TestPortWs == 9090

\* the override values of the model; the callers check that song_path and
\* data_path are directories, but load_config takes any path, the empty one
\* included (tried for song_path; data_path is assigned the same way)
Overrides ==
    [song_path : {None, Some(""), Some("test/test_data/songs")},
     data_path : {None, Some("test/test_data")},
     refresh_collection : {None, Some(TRUE), Some(FALSE)},
     use_web_player : {None, Some(TRUE), Some(FALSE)},
     port : {None, Some(TestPort)},
     port_ws : {None, Some(TestPortWs)}]

ConfigPaths == {None, Some(ExplicitPath)}

----------------------------------------------------------------------------
(* Results *)

NoRet == [tag |-> "none", from |-> "", val |-> None]

Ok(c) == [tag |-> "Ok", from |-> "", val |-> Some(c)]

Err(step) == [tag |-> "Err", from |-> step, val |-> None]

----------------------------------------------------------------------------
(* The steps of load_config *)

\* match config_path { Some(path) => path, None => CONF_FILE }
ConfigFile(config_path) ==
    IF config_path # None THEN Unwrap(config_path) ELSE CONF_FILE

\* karaoke::embed::create_config_if_not_exists on the file f: the file
\* afterwards when the step succeeds
CreateConfigIfNotExists(f) ==
    IF f.exists THEN f ELSE YamlFile(TryFrom(ConfigDefault))

\* a default_or_file that falls back to the defaults when the file does not
\* decode
DefaultOrFileLenient(f) ==
    LET defaults == Merge(EmptyMap, TryFrom(ConfigDefault))
    IN  IF f.exists /\ f.syntax_ok /\ TryInto(Merge(defaults, f.doc)).ok
        THEN TryInto(Merge(defaults, f.doc))
        ELSE TryInto(defaults)

\* default_or_file on the file f
DefaultOrFile(f) ==
    LET defaults == Merge(EmptyMap, TryFrom(ConfigDefault))
    IN  IF f.exists
        THEN IF f.syntax_ok
             THEN TryInto(Merge(defaults, f.doc))
             ELSE [ok |-> FALSE, val |-> None]
        ELSE TryInto(defaults)

\* the override assignments without the inversion of refresh_collection
ApplyOverridesNoInversion(c, o) ==
    [c EXCEPT
        !.song_path = IF o.song_path # None THEN Unwrap(o.song_path) ELSE @,
        !.data_path = IF o.data_path # None THEN Unwrap(o.data_path) ELSE @,
        !.no_collection_update =
            IF o.refresh_collection # None
            THEN Unwrap(o.refresh_collection) ELSE @,
        !.use_web_player =
            IF o.use_web_player # None THEN Unwrap(o.use_web_player) ELSE @,
        !.port = IF o.port # None THEN Unwrap(o.port) ELSE @,
        !.port_ws = IF o.port_ws # None THEN Unwrap(o.port_ws) ELSE @]

\* the override assignments with an absent override resetting its field to
\* the default (unwrap_or) and song_format reset as well
ApplyOverridesOrDefault(c, o) ==
    [c EXCEPT
        !.song_path = IF o.song_path # None THEN Unwrap(o.song_path)
                      ELSE ConfigDefault.song_path,
        !.data_path = IF o.data_path # None THEN Unwrap(o.data_path)
                      ELSE ConfigDefault.data_path,
        !.no_collection_update =
            IF o.refresh_collection # None
            THEN ~Unwrap(o.refresh_collection) ELSE FALSE,
        !.use_web_player =
            IF o.use_web_player # None THEN Unwrap(o.use_web_player)
            ELSE ConfigDefault.use_web_player,
        !.port = IF o.port # None THEN Unwrap(o.port) ELSE ConfigDefault.port,
        !.port_ws = IF o.port_ws # None THEN Unwrap(o.port_ws)
                    ELSE ConfigDefault.port_ws,
        !.song_format = ConfigDefault.song_format]

\* the override assignments with port and port_ws exchanged
ApplyOverridesSwapsPorts(c, o) ==
    [c EXCEPT
        !.song_path = IF o.song_path # None THEN Unwrap(o.song_path) ELSE @,
        !.data_path = IF o.data_path # None THEN Unwrap(o.data_path) ELSE @,
        !.no_collection_update =
            IF o.refresh_collection # None
            THEN ~Unwrap(o.refresh_collection) ELSE @,
        !.use_web_player =
            IF o.use_web_player # None THEN Unwrap(o.use_web_player) ELSE @,
        !.port = IF o.port_ws # None THEN Unwrap(o.port_ws) ELSE @,
        !.port_ws = IF o.port # None THEN Unwrap(o.port) ELSE @]

\* the six `if let Some(..)` assignments of load_config
ApplyOverrides(c, o) ==
    [c EXCEPT
        !.song_path = IF o.song_path # None THEN Unwrap(o.song_path) ELSE @,
        !.data_path = IF o.data_path # None THEN Unwrap(o.data_path) ELSE @,
        !.no_collection_update =
            IF o.refresh_collection # None
            THEN ~Unwrap(o.refresh_collection) ELSE @,
        !.use_web_player =
            IF o.use_web_player # None THEN Unwrap(o.use_web_player) ELSE @,
        !.port = IF o.port # None THEN Unwrap(o.port) ELSE @,
        !.port_ws = IF o.port_ws # None THEN Unwrap(o.port_ws) ELSE @]

----------------------------------------------------------------------------
(* The state machine *)

TargetFile == fs[Unwrap(config_file)]

\* before the first call: any file, or none, at the default location; none
\* at the explicit path (the tests assert it and remove the file at the end)
Init ==
    /\ \E f \in InitialFiles :
          fs = [q \in Paths |-> IF q = CONF_FILE THEN f ELSE Absent]
    /\ pc = "idle"
    /\ args = [config_path |-> None, overrides |-> NoOverrides]
    /\ config_file = None
    /\ config = None
    /\ ret = NoRet
    /\ log = <<>>
    /\ fileAtCall = Absent
    /\ merged = None
    /\ created = [q \in Paths |-> "no"]
    /\ writes = [q \in Paths |-> 0]

\* a load_config that goes to default_or_file without the bootstrap step
CallSkipsBootstrap(config_path, o) ==
    /\ pc = "idle"
    /\ pc' = "merge"
    /\ args' = [config_path |-> config_path, overrides |-> o]
    /\ config_file' = Some(ConfigFile(config_path))
    /\ fileAtCall' = fs[ConfigFile(config_path)]
    /\ log' = <<>>
    /\ ret' = NoRet
    /\ config' = None
    /\ merged' = None
    /\ UNCHANGED <<fs, created, writes>>

\* a caller enters load_config; the config file is chosen
Call(config_path, o) ==
    /\ pc = "idle"
    /\ pc' = "bootstrap"
    /\ args' = [config_path |-> config_path, overrides |-> o]
    /\ config_file' = Some(ConfigFile(config_path))
    /\ fileAtCall' = fs[ConfigFile(config_path)]
    /\ log' = <<>>
    /\ ret' = NoRet
    /\ config' = None
    /\ merged' = None
    /\ UNCHANGED <<fs, created, writes>>

\* a bootstrap step that writes the defaults with the overrides applied
BootstrapOkWritesOverrides ==
    /\ pc = "bootstrap"
    /\ fs' = [fs EXCEPT ![Unwrap(config_file)] =
                IF @.exists THEN @
                ELSE YamlFile(TryFrom(
                        [ConfigDefault EXCEPT
                           !.port = IF args.overrides.port # None
                                    THEN Unwrap(args.overrides.port) ELSE @,
                           !.song_path =
                                IF args.overrides.song_path # None
                                THEN Unwrap(args.overrides.song_path)
                                ELSE @]))]
    /\ log' = log \o (IF TargetFile.exists THEN <<"bootstrap">>
                       ELSE <<"bootstrap", "write">>)
    /\ created' =
         IF TargetFile.exists THEN created
         ELSE [created EXCEPT ![Unwrap(config_file)] =
                 IF args.overrides = NoOverrides THEN "plain" ELSE "custom"]
    /\ writes' =
         IF TargetFile.exists THEN writes
         ELSE [writes EXCEPT ![Unwrap(config_file)] = @ + 1]
    /\ pc' = "merge"
    /\ UNCHANGED <<args, config_file, config, ret, fileAtCall, merged>>

\* create_config_if_not_exists(&config_file)? succeeds
BootstrapOk ==
    /\ pc = "bootstrap"
    /\ fs' = [fs EXCEPT ![Unwrap(config_file)] = CreateConfigIfNotExists(@)]
    /\ log' = log \o (IF TargetFile.exists THEN <<"bootstrap">>
                       ELSE <<"bootstrap", "write">>)
    /\ created' =
         IF TargetFile.exists THEN created
         ELSE [created EXCEPT ![Unwrap(config_file)] =
                 IF args.overrides = NoOverrides THEN "plain" ELSE "custom"]
    /\ writes' =
         IF TargetFile.exists THEN writes
         ELSE [writes EXCEPT ![Unwrap(config_file)] = @ + 1]
    /\ pc' = "merge"
    /\ UNCHANGED <<args, config_file, config, ret, fileAtCall, merged>>

\* create_config_if_not_exists(&config_file)? fails (directory creation,
\* serialization or write error) and `?` returns the error
BootstrapErr ==
    /\ pc = "bootstrap"
    /\ ~TargetFile.exists
    /\ log' = log \o <<"bootstrap">>
    /\ ret' = Err("bootstrap")
    /\ pc' = "returned"
    /\ UNCHANGED
         <<fs, args, config_file, config, fileAtCall, merged, created, writes>>

\* a merge step that recovers from a failed default_or_file with the defaults
MergeStepRecovers ==
    /\ pc = "merge"
    /\ log' = log \o (IF TargetFile.exists THEN <<"merge", "read">>
                       ELSE <<"merge">>)
    /\ LET r == DefaultOrFile(TargetFile)
       IN  /\ config' = IF r.ok THEN r.val ELSE Some(ConfigDefault)
           /\ merged' = IF r.ok THEN r.val ELSE Some(ConfigDefault)
    /\ pc' = "override"
    /\ UNCHANGED <<fs, args, config_file, ret, fileAtCall, created, writes>>

\* let mut config = default_or_file(config_file)?
MergeStep ==
    /\ pc = "merge"
    /\ log' = log \o (IF TargetFile.exists THEN <<"merge", "read">>
                       ELSE <<"merge">>)
    /\ LET r == DefaultOrFile(TargetFile)
       IN  IF r.ok
           THEN /\ config' = r.val
                /\ merged' = r.val
                /\ pc' = "override"
                /\ ret' = ret
           ELSE /\ config' = None
                /\ merged' = None
                /\ pc' = "returned"
                /\ ret' = Err("merge")
    /\ UNCHANGED <<fs, args, config_file, fileAtCall, created, writes>>

\* an override step that saves the resolved config to the config file
OverrideStepSaves ==
    /\ pc = "override"
    /\ log' = log \o <<"override", "write">>
    /\ config' = Some(ApplyOverrides(Unwrap(config), args.overrides))
    /\ ret' = Ok(ApplyOverrides(Unwrap(config), args.overrides))
    /\ fs' = [fs EXCEPT ![Unwrap(config_file)] =
                YamlFile(TryFrom(ApplyOverrides(Unwrap(config),
                                                args.overrides)))]
    /\ writes' = [writes EXCEPT ![Unwrap(config_file)] = @ + 1]
    /\ pc' = "returned"
    /\ UNCHANGED <<args, config_file, fileAtCall, merged, created>>

\* the override assignments, then Ok(config)
OverrideStep ==
    /\ pc = "override"
    /\ log' = log \o <<"override">>
    /\ config' = Some(ApplyOverrides(Unwrap(config), args.overrides))
    /\ ret' = Ok(ApplyOverrides(Unwrap(config), args.overrides))
    /\ pc' = "returned"
    /\ UNCHANGED
         <<fs, args, config_file, fileAtCall, merged, created, writes>>

\* the caller takes the result; nothing of the call is kept
Return ==
    /\ pc = "returned"
    /\ pc' = "idle"
    /\ args' = [config_path |-> None, overrides |-> NoOverrides]
    /\ config_file' = None
    /\ config' = None
    /\ ret' = NoRet
    /\ log' = <<>>
    /\ fileAtCall' = Absent
    /\ merged' = None
    /\ UNCHANGED <<fs, created, writes>>

Next ==
    \/ \E cp \in ConfigPaths, o \in Overrides : Call(cp, o)
    \/ BootstrapOk
    \/ BootstrapErr
    \/ MergeStep
    \/ OverrideStep
    \/ Return

Spec == Init /\ [][Next]_vars

----------------------------------------------------------------------------
(* Properties *)

\* the call in progress has returned Ok(config)
Succeeded == pc = "returned" /\ ret.tag = "Ok"

\* the Config the call returned
Result == Unwrap(ret.val)

\* the value a field takes from the three layers: the override, else the
\* file's key, else the default
Layered(override, fileValue, default) ==
    IF override # None THEN Unwrap(override)
    ELSE IF fileValue # None THEN Unwrap(fileValue)
    ELSE default

\* the scalar a file value holds, as an Option
StrOf(v) == {x.s : x \in v}

BoolOf(v) == {x.b : x \in v}

IntOf(v) == {x.i : x \in v}

OnlyPort9999 == YamlFile([EmptyMap EXCEPT !["port"] = Some(VInt(9999))])

\* C1: in every successful load_config call each of song_path, data_path,
\* use_web_player, port and port_ws is the override when one is supplied,
\* else the value of the key in the config file when the file has the key,
\* else the default; a file holding only port: 9999 resolves to the defaults
\* with port 9999, and a file port of 9090 is beaten by an override of 8000.
C1_Precedence ==
    Succeeded =>
        LET c == Result
            o == args.overrides
            d == TargetFile.doc
        IN  /\ c.song_path =
                 Layered(o.song_path, StrOf(d["song_path"]),
                         ConfigDefault.song_path)
            /\ c.data_path =
                 Layered(o.data_path, StrOf(d["data_path"]),
                         ConfigDefault.data_path)
            /\ c.use_web_player =
                 Layered(o.use_web_player, BoolOf(d["use_web_player"]),
                         ConfigDefault.use_web_player)
            /\ c.port = Layered(o.port, IntOf(d["port"]), ConfigDefault.port)
            /\ c.port_ws =
                 Layered(o.port_ws, IntOf(d["port_ws"]), ConfigDefault.port_ws)
            /\ (TargetFile = OnlyPort9999 /\ o = NoOverrides)
                  => c = [ConfigDefault EXCEPT !.port = 9999]
            /\ (d["port"] = Some(VInt(9090)) /\ o.port = Some(TestPort))
                  => c.port = TestPort

\* C1 witness: the file sets port 9090 and use_web_player, the caller
\* overrides the port only: the port is the override's, use_web_player the
\* file's, port_ws the default
C1_Witness ==
    /\ Succeeded
    /\ fileAtCall.exists
    /\ TargetFile.doc["port"] = Some(VInt(9090))
    /\ TargetFile.doc["use_web_player"] = Some(VBool(TRUE))
    /\ args.overrides = [NoOverrides EXCEPT !.port = Some(TestPort)]
    /\ Result.port = TestPort
    /\ Result.use_web_player = TRUE
    /\ Result.port_ws = DefaultPortWs

\* C2: when refresh_collection is Some(v) the resolved no_collection_update
\* is NOT v whatever the file and the default say; when it is None the
\* resolved no_collection_update is the value default_or_file produced.
C2_Inversion ==
    Succeeded =>
        LET c == Result
            o == args.overrides
        IN  /\ o.refresh_collection = Some(TRUE)
                  => c.no_collection_update = FALSE
            /\ o.refresh_collection = Some(FALSE)
                  => c.no_collection_update = TRUE
            /\ o.refresh_collection = None
                  => /\ merged # None
                     /\ c.no_collection_update =
                          Unwrap(merged).no_collection_update
                     /\ c.no_collection_update =
                          Layered(None,
                                  BoolOf(TargetFile.doc["no_collection_update"]),
                                  ConfigDefault.no_collection_update)

\* C2 witness: the file says no_collection_update: true and the caller asks
\* for a refresh: the override wins, inverted
C2_Witness ==
    /\ Succeeded
    /\ TargetFile.doc["no_collection_update"] = Some(VBool(TRUE))
    /\ args.overrides.refresh_collection = Some(TRUE)
    /\ Result.no_collection_update = FALSE

\* C4: the override step changes only the fields whose override is present:
\* a field whose override is absent keeps the value default_or_file produced,
\* and song_format and player always keep it.
C4_OverrideFrame ==
    Succeeded =>
        LET c == Result
            o == args.overrides
            m == Unwrap(merged)
        IN  /\ merged # None
            /\ o.song_path = None => c.song_path = m.song_path
            /\ o.data_path = None => c.data_path = m.data_path
            /\ o.refresh_collection = None
                  => c.no_collection_update = m.no_collection_update
            /\ o.use_web_player = None => c.use_web_player = m.use_web_player
            /\ o.port = None => c.port = m.port
            /\ o.port_ws = None => c.port_ws = m.port_ws
            /\ c.song_format = m.song_format
            /\ c.player = m.player

\* C4 witness: the file sets port and song_format, the caller overrides
\* song_path only: port and song_format are the file's
C4_Witness ==
    /\ Succeeded
    /\ TargetFile.doc["port"] = Some(VInt(9999))
    /\ TargetFile.doc["song_format"] = Some(VStr("[Artist] - [Title]"))
    /\ args.overrides =
         [NoOverrides EXCEPT !.song_path = Some("test/test_data/songs")]
    /\ Result.port = 9999
    /\ Result.song_format = "[Artist] - [Title]"
    /\ Result.song_path = "test/test_data/songs"

\* the overrides of tests::test_create_custom_config
TestOverrides ==
    [song_path |-> Some("test/test_data/songs"),
     data_path |-> Some("test/test_data"),
     refresh_collection |-> Some(TRUE),
     use_web_player |-> Some(TRUE),
     port |-> Some(TestPort),
     port_ws |-> Some(TestPortWs)]

\* Config::default() with exactly the overrides o applied
DefaultWith(o) ==
    [song_path |-> Layered(o.song_path, None, SONG_DIR),
     data_path |-> Layered(o.data_path, None, DATA_DIR),
     no_collection_update |->
        IF o.refresh_collection # None
        THEN ~Unwrap(o.refresh_collection) ELSE FALSE,
     use_web_player |-> Layered(o.use_web_player, None, FALSE),
     port |-> Layered(o.port, None, DefaultPort),
     port_ws |-> Layered(o.port_ws, None, DefaultPortWs),
     song_format |-> DefaultSongFormat,
     player |-> PlayerConfigDefault]

C5_FileUntouched ==
    /\ (pc # "idle" /\ fileAtCall.exists) => TargetFile = fileAtCall
    /\ \A p \in Paths : writes[p] <= 1
    /\ \A p \in Paths : writes[p] = 1 <=> created[p] # "no"
    /\ "write" \in {log[i] : i \in DOMAIN log} => ~fileAtCall.exists

\* C5 witness: a later call, with overrides, on the file an earlier call
\* wrote has returned; the file is as it was
C5_Witness ==
    /\ Succeeded
    /\ fileAtCall.exists
    /\ created[Unwrap(config_file)] # "no"
    /\ args.overrides = TestOverrides
    /\ TargetFile = fileAtCall

\* the file has a known key holding a value of the wrong type
WrongType(f) ==
    \E k \in MapKeys :
        f.doc[k] # None /\ Unwrap(f.doc[k]).kind # KindOf(k)

Count(seq, e) == Cardinality({i \in DOMAIN seq : seq[i] = e})

\* C7: a failure of the bootstrap step is returned without the merge or the
\* override step running, a failure of the merge step without the override
\* step running, no step runs twice, and a Config is returned only when both
\* steps succeeded.
C7_AllOrNothing ==
    /\ (pc = "returned" /\ ret.from = "bootstrap") =>
          /\ ret.tag = "Err"
          /\ log = <<"bootstrap">>
          /\ merged = None /\ config = None /\ ret.val = None
    /\ (pc = "returned" /\ ret.from = "merge") =>
          /\ ret.tag = "Err"
          /\ Count(log, "override") = 0
          /\ merged = None /\ config = None /\ ret.val = None
    /\ \A e \in {"bootstrap", "merge", "override"} : Count(log, e) <= 1
    /\ ret.val # None =>
          /\ ret.tag = "Ok"
          /\ TargetFile.exists
          /\ DefaultOrFile(TargetFile).ok
          /\ Count(log, "bootstrap") = 1 /\ Count(log, "merge") = 1
    /\ (pc = "returned" /\ fileAtCall.exists /\ ~DefaultOrFile(fileAtCall).ok)
          => ret = Err("merge")

\* C7 witness: the bootstrap step failed in a call with overrides
C7_Witness ==
    /\ pc = "returned"
    /\ ret = Err("bootstrap")
    /\ args.overrides = TestOverrides
    /\ log = <<"bootstrap">>

\* C8 as claimed: in every Config returned, song_path and data_path are
\* non-empty.
C8_Original ==
    Succeeded => (Result.song_path # "" /\ Result.data_path # "")

\* the layer that wins for a path is empty: an empty override, or with no
\* override an empty value of the key in the file
EmptyWins(override, fileValue) ==
    \/ override = Some("")
    \/ override = None /\ fileValue = Some(VStr(""))

\* C8 amended: in every Config returned song_path and data_path are set, and
\* each is non-empty unless the layer that wins for it is itself empty (an
\* empty override, or with no override an empty value in the config file).
C8_PathsSet ==
    Succeeded =>
        /\ Result.song_path = "" <=>
              EmptyWins(args.overrides.song_path, TargetFile.doc["song_path"])
        /\ Result.data_path = "" <=>
              EmptyWins(args.overrides.data_path, TargetFile.doc["data_path"])

\* C8 witness: the file sets song_path to the empty string and another key;
\* the returned song_path is empty and data_path is the default
C8_Witness ==
    /\ Succeeded
    /\ args.overrides.song_path = None
    /\ args.overrides.data_path = None
    /\ TargetFile.doc["song_path"] = Some(VStr(""))
    /\ TargetFile.doc["data_path"] = None
    /\ Result.song_path = ""
    /\ Result.data_path = DATA_DIR

IsPrefix(s, t) == Len(s) <= Len(t) /\ SubSeq(t, 1, Len(s)) = s

\* C10: within one call the steps run in the order bootstrap, merge,
\* overrides; the file is written at most once and only when it was absent
\* at the bootstrap check, read at most once, written before it is read,
\* and whenever the merge step runs it finds the file and reads it; in the
\* merge the file comes second, its keys replacing the defaults.
C10_StepOrder ==
    /\ IF fileAtCall.exists
       THEN IsPrefix(log, <<"bootstrap", "merge", "read", "override">>)
       ELSE IsPrefix(log, <<"bootstrap", "write", "merge", "read", "override">>)
    /\ pc = "merge" => TargetFile.exists
    /\ Succeeded => Count(log, "read") = 1
    /\ (pc = "override" /\ TargetFile.doc["port"] # None) =>
          /\ merged = config
          /\ Unwrap(merged).port = Unwrap(TargetFile.doc["port"]).i

\* C10 witness: a call that found no file has run all its steps
C10_Witness ==
    /\ Succeeded
    /\ log = <<"bootstrap", "write", "merge", "read", "override">>

====
